---- MODULE Spec2Model ----
(***************************************************************************)
(* KIOSQUE DU PARC backend: administrator authentication, the signed       *)
(* session cookie, the admin_required guard in front of the admin routes,  *)
(* and the content tables those routes edit.                               *)
(*                                                                         *)
(* The session token is modelled at the level of its characters, the way   *)
(* itsdangerous' URLSafeTimedSerializer builds it:                         *)
(*     base64(payload) "." base64(timestamp) "." base64(HMAC(key, value))  *)
(* where value is the text before the last ".".  The HMAC is taken to be   *)
(* collision free (an injective numbering of (key, value)); base64 is      *)
(* modelled with its real shape: a fixed number of bits per character, a   *)
(* digest whose size is no multiple of it, so that the last character of   *)
(* the signature carries unused bits that the decoder discards.            *)
(***************************************************************************)
EXTENDS Integers, Sequences, FiniteSets, TLC

VARIABLES
    now,        \* the server clock, int(time.time())
    admins,     \* table "admins": id -> [username, password_hash, is_active]
    jar,        \* the administrator's browser: the kdp_admin_session cookie
    captured,   \* a copy of a cookie value kept outside the browser
    req,        \* the last request received
    resp,       \* the response given to it
    products,   \* table "products"
    schedules,  \* table "schedules"
    location,   \* table "location"
    settings,   \* table "settings"
    messages    \* table "contact_messages"

vars == <<now, admins, jar, captured, req, resp,
          products, schedules, location, settings, messages>>

tables == <<products, schedules, location, settings, messages>>

-----------------------------------------------------------------------------
(* Bounds *)

\* settings.py:20 reads it from the environment (default 480 minutes).
ADMIN_SESSION_EXPIRE_MINUTES == 1
\* clock values sampled on each side of the interesting instants
Slack == 2
\* bits carried by one character of a token (6 for base64)
BitsPerChar == 2
\* signing keys: the server's and those of forgers
NKeys == 2
\* rows in table admins
MaxAdmins == 2
\* salts bcrypt.gensalt() can draw
MaxSalt == 1

-----------------------------------------------------------------------------
(* Small arithmetic *)

RECURSIVE Pow(_, _)
Pow(b, n) == IF n = 0 THEN 1 ELSE b * Pow(b, n - 1)

\* number of base-b digits needed to write every number in 0..n
RECURSIVE DigitsFor(_, _)
DigitsFor(n, b) == IF n < b THEN 1 ELSE 1 + DigitsFor(n \div b, b)

\* big-endian numeral of n in k digits of base b
ToDigits(n, k, b) == [i \in 1..k |-> (n \div Pow(b, k - i)) % b]

RECURSIVE FromDigits(_, _)
FromDigits(s, b) ==
    IF s = <<>> THEN 0
    ELSE FromDigits(SubSeq(s, 1, Len(s) - 1), b) * b + s[Len(s)]

Max(S) == CHOOSE x \in S : \A y \in S : y <= x

-----------------------------------------------------------------------------
(* Configuration (settings.py) and the domains of the inputs *)

SECRET_KEY == 0
ForgerKey == SECRET_KEY + 1
SESSION_COOKIE_NAME == "kdp_admin_session"
INIT_ADMIN_USERNAME == "admin"
INIT_ADMIN_PASSWORD == "admin123"

max_age == ADMIN_SESSION_EXPIRE_MINUTES * 60

UsernameSeq == <<"admin", "alice">>
Usernames == {UsernameSeq[i] : i \in DOMAIN UsernameSeq}
Passwords == {"admin123", "S3cret!"}
Salts == 1..MaxSalt

\* instants at which something happens: around issuance and around expiry
TimePoints == (0..(Slack - 1)) \cup (max_age..(max_age + Slack))
MaxTime == Max(TimePoints)

-----------------------------------------------------------------------------
(* Password Hasher: bcrypt (auth.py hash_password / verify_password)        *)

\* bcrypt.hashpw: the hash string embeds the salt and the digest of
\* (salt, password); bcrypt is taken to be collision free.
hashpw(password, salt) == [salt |-> salt, digest |-> <<salt, password>>]

hash_password(password, salt) == hashpw(password, salt)

\* bcrypt.checkpw recomputes the hash with the salt embedded in the stored one
verify_password(plain_password, hashed_password) ==
    hashpw(plain_password, hashed_password.salt) = hashed_password

\* bcrypt.checkpw hands the stored string to hashpw as the salt, and hashpw
\* raises ValueError("Invalid salt") when no salt can be read from it
checkpw_raises(hashed_password) == hashed_password.salt \notin Salts

\* strings that are not the hash of any password: one from which no salt can
\* be read, and one with a salt and a truncated digest
MalformedHashes == {[salt |-> 0, digest |-> <<>>],
                    [salt |-> Max(Salts), digest |-> <<>>]}

-----------------------------------------------------------------------------
(* Session Token Codec: URLSafeTimedSerializer(SECRET_KEY)                  *)

Base == Pow(2, BitsPerChar)
Chars == 0..(Base - 1)       \* the alphabet of base64
Sep == Base                  \* the separator "."
Symbols == Chars \cup {Sep}

UIndex(u) == (CHOOSE i \in DOMAIN UsernameSeq : UsernameSeq[i] = u) - 1

\* base64(json({"admin_id": .., "username": ..})): one character each
dump_payload(data) == <<data.admin_id, UIndex(data.username)>>
PayloadLen == 2

NoData == [ok |-> FALSE, admin_id |-> 0, username |-> ""]
Data(admin_id, username) == [ok |-> TRUE, admin_id |-> admin_id, username |-> username]

load_payload(p) ==
    IF /\ Len(p) = PayloadLen
       /\ \A i \in 1..Len(p) : p[i] \in Chars
       /\ p[2] + 1 \in DOMAIN UsernameSeq
    THEN Data(p[1], UsernameSeq[p[2] + 1])
    ELSE NoData

\* base64(int_to_bytes(timestamp))
TsLen == DigitsFor(MaxTime, Base)
encode_timestamp(t) == ToDigits(t, TsLen, Base)
decode_timestamp(s) == FromDigits(s, Base)

ValueLen == PayloadLen + 1 + TsLen

\* injective numbering of the signed text (a leading 1 keeps lengths apart)
ValueNum(value) == FromDigits(<<1>> \o value, Base + 1)

\* HMAC(key, value): no two (key, value) have the same digest
get_signature(key, value) == ValueNum(value) * NKeys + key

DigestSpace == 2 * Pow(Base + 1, ValueLen) * NKeys
RECURSIVE MinBits(_)
MinBits(n) == IF n <= 1 THEN 0 ELSE 1 + MinBits((n + 1) \div 2)
\* like SHA-1's 160 bits in 6-bit characters, the digest does not fill
\* its last character
DigestBits ==
    LET b == MinBits(DigestSpace) IN IF b % BitsPerChar = 0 THEN b + 1 ELSE b
SigLen == (DigestBits + BitsPerChar - 1) \div BitsPerChar
SpareBits == SigLen * BitsPerChar - DigestBits

\* base64_encode(digest): the unused low bits of the last character are 0
base64_encode(digest) == ToDigits(digest * Pow(2, SpareBits), SigLen, Base)

\* base64_decode(sig): Python's decoder discards the bits that do not fill a
\* byte; a text of another length gives another number of bytes (-1 here)
base64_decode(sig) ==
    IF Len(sig) = SigLen
    THEN FromDigits(sig, Base) \div Pow(2, SpareBits)
    ELSE -1

LastSep(s) == Max({0} \cup {i \in 1..Len(s) : s[i] = Sep})

\* Signer.verify_signature: a text that does not decode to as many bytes as
\* a digest has cannot match; every text signed here has ValueLen characters
verify_signature(key, value, sig) ==
    /\ base64_decode(sig) # -1
    /\ Len(value) <= ValueLen
    /\ base64_decode(sig) = get_signature(key, value)

\* serializer.dumps(data) at time t
dumps(key, data, t) ==
    LET value == dump_payload(data) \o <<Sep>> \o encode_timestamp(t)
    IN  value \o <<Sep>> \o base64_encode(get_signature(key, value))

TokenLen == ValueLen + 1 + SigLen

LoadsResult(kind, data) == [kind |-> kind, data |-> data]

\* loads that returns the payload whatever the signature (loads_unsafe)
loads_unsafe(key, token, age, t) ==
    LET p == LastSep(token)
        q == LastSep(SubSeq(token, 1, p - 1))
    IN  IF p = 0 \/ q = 0 THEN LoadsResult("BadSignature", NoData)
        ELSE LoadsResult("ok", load_payload(SubSeq(token, 1, q - 1)))

\* loads that refuses a token already at age = max_age
loads_exclusive(key, token, age, t) ==
    LET p == LastSep(token) IN
    IF p = 0 THEN LoadsResult("BadSignature", NoData)
    ELSE
      LET value == SubSeq(token, 1, p - 1)
          sig == SubSeq(token, p + 1, Len(token))
          q == LastSep(value)
      IN
      IF ~verify_signature(key, value, sig) \/ q = 0
      THEN LoadsResult("BadSignature", NoData)
      ELSE IF t - decode_timestamp(SubSeq(value, q + 1, Len(value))) >= age
      THEN LoadsResult("SignatureExpired", NoData)
      ELSE LoadsResult("ok", load_payload(SubSeq(value, 1, q - 1)))

\* loads that looks at the age of the token before its signature
loads_age_first(key, token, age, t) ==
    LET p == LastSep(token) IN
    IF p = 0 THEN LoadsResult("BadSignature", NoData)
    ELSE
      LET value == SubSeq(token, 1, p - 1)
          sig == SubSeq(token, p + 1, Len(token))
          q == LastSep(value)
      IN
      IF q = 0 THEN LoadsResult("BadSignature", NoData)
      ELSE IF t - decode_timestamp(SubSeq(value, q + 1, Len(value))) > age
      THEN LoadsResult("SignatureExpired", NoData)
      ELSE IF ~verify_signature(key, value, sig)
      THEN LoadsResult("BadSignature", NoData)
      ELSE LoadsResult("ok", load_payload(SubSeq(value, 1, q - 1)))

\* serializer.loads(token, max_age=age) at time t:
\* Signer.unsign, then TimestampSigner.unsign, then the payload
loads(key, token, age, t) ==
    LET p == LastSep(token) IN
    IF p = 0 THEN LoadsResult("BadSignature", NoData)
    ELSE
      LET value == SubSeq(token, 1, p - 1)
          sig == SubSeq(token, p + 1, Len(token))
          q == LastSep(value)
      IN
      IF ~verify_signature(key, value, sig)
      THEN LoadsResult("BadSignature", NoData)
      ELSE IF q = 0 THEN LoadsResult("BadSignature", NoData)
      ELSE
        LET payload == SubSeq(value, 1, q - 1)
            ts == decode_timestamp(SubSeq(value, q + 1, Len(value)))
        IN
        IF t - ts > age \/ t - ts < 0
        THEN LoadsResult("SignatureExpired", NoData)
        ELSE LoadsResult("ok", load_payload(payload))

\* create_session_token that signs the configured username
create_session_token_default_user(admin_id, username, t) ==
    dumps(SECRET_KEY, Data(admin_id, INIT_ADMIN_USERNAME), t)

\* auth.py create_session_token, at time t
create_session_token(admin_id, username, t) ==
    dumps(SECRET_KEY, Data(admin_id, username), t)

\* verify_session_token that calls loads(token) without max_age
verify_session_token_no_max_age(token, t) ==
    LET r == loads(SECRET_KEY, token, MaxTime + 1, t)
    IN  IF r.kind = "ok" THEN r.data ELSE NoData

\* verify_session_token that takes the lifetime in minutes for seconds
verify_session_token_minutes(token, t) ==
    LET r == loads(SECRET_KEY, token, ADMIN_SESSION_EXPIRE_MINUTES, t)
    IN  IF r.kind = "ok" THEN r.data ELSE NoData

\* auth.py verify_session_token, at time t: the data, or None (NoData)
verify_session_token(token, t) ==
    LET r == loads(SECRET_KEY, token, max_age, t)
    IN  IF r.kind = "ok" THEN r.data ELSE NoData

-----------------------------------------------------------------------------
(* Cookies, requests and responses *)

\* request.cookies.get(SESSION_COOKIE_NAME): a value, or None
NoCookie == [present |-> FALSE, value |-> <<>>]
Cookie(v) == [present |-> TRUE, value |-> v]

\* a Set-Cookie header for SESSION_COOKIE_NAME
NoSetCookie ==
    [present |-> FALSE, key |-> "", value |-> <<>>, max_age |-> 0,
     httponly |-> FALSE, samesite |-> ""]

\* a cookie somebody holds: the header, when it was received and the
\* account it was issued to
NoHeld == [cookie |-> NoSetCookie, set_at |-> 0, subject |-> NoData]

\* a request: the route, how the cookie it carries came about ("missing",
\* "empty", "valid", "expired", "forged", "tampered", "flipped"), the account
\* that cookie was issued to, the login form, and the edit made to the cookie
Req(route, kind, subject, username, password, detail) ==
    [route |-> route, kind |-> kind, subject |-> subject,
     username |-> username, password |-> password, detail |-> detail]

\* status, Location header, template rendered, its error text, Set-Cookie,
\* cookie deletion, whether the handler body ran and the admin it was given
Resp(status, loc, page, error, set_cookie, delete_cookie, ran, admin) ==
    [status |-> status, location |-> loc, page |-> page, error |-> error,
     set_cookie |-> set_cookie, delete_cookie |-> delete_cookie,
     ran |-> ran, admin |-> admin]

NoReq == Req("", "missing", NoData, "", "", <<>>)
NoResp == Resp(0, "", "", "", NoSetCookie, FALSE, FALSE, NoData)

Redirect(url, admin) == Resp(303, url, "", "", NoSetCookie, FALSE, TRUE, admin)
Template(page, error, admin) ==
    Resp(200, "", page, error, NoSetCookie, FALSE, TRUE, admin)
NotFound(admin) == Resp(404, "", "", "", NoSetCookie, FALSE, TRUE, admin)

\* an exception no handler catches: 500 Internal Server Error
ServerError == Resp(500, "", "", "", NoSetCookie, FALSE, TRUE, NoData)

\* HTTPException(status_code=303, headers={"Location": "/admin/login"})
LoginRedirect == Resp(303, "/admin/login", "", "", NoSetCookie, FALSE, FALSE, NoData)

-----------------------------------------------------------------------------
(* Authentication (auth.py) *)

NoAdmin == [found |-> FALSE, id |-> 0, username |-> ""]

\* db.query(Admin).filter(Admin.username == username).first()
first_admin(store, username) ==
    LET ids == {i \in DOMAIN store : store[i].username = username}
    IN  IF ids = {} THEN 0 ELSE CHOOSE i \in ids : \A j \in ids : i <= j

\* authenticate_admin without the is_active test
authenticate_admin_inactive_too(store, username, password) ==
    LET i == first_admin(store, username) IN
    IF i = 0 THEN NoAdmin
    ELSE IF ~verify_password(password, store[i].password_hash) THEN NoAdmin
    ELSE [found |-> TRUE, id |-> i, username |-> store[i].username]

authenticate_admin(store, username, password) ==
    LET i == first_admin(store, username) IN
    IF i = 0 THEN NoAdmin
    ELSE IF ~store[i].is_active THEN NoAdmin
    ELSE IF ~verify_password(password, store[i].password_hash) THEN NoAdmin
    ELSE [found |-> TRUE, id |-> i, username |-> store[i].username]

\* get_current_admin that looks the account up and wants it active
get_current_admin_checking_store(cookie, t) ==
    IF ~cookie.present \/ cookie.value = <<>> THEN NoData
    ELSE LET d == verify_session_token(cookie.value, t) IN
         IF d.ok /\ d.admin_id \in DOMAIN admins /\ admins[d.admin_id].is_active
         THEN d ELSE NoData

\* get_current_admin that answers with the account of the login made last,
\* kept in one place for all sessions
get_current_admin_last_login(cookie, t) ==
    IF ~cookie.present \/ cookie.value = <<>> THEN NoData
    ELSE IF ~verify_session_token(cookie.value, t).ok THEN NoData
    ELSE IF jar.cookie.present THEN jar.subject
    ELSE verify_session_token(cookie.value, t)

\* authenticate_admin reaches verify_password and verify_password raises
authenticate_admin_raises(store, username, password) ==
    LET i == first_admin(store, username) IN
    /\ i # 0
    /\ store[i].is_active
    /\ checkpw_raises(store[i].password_hash)

get_current_admin(cookie, t) ==
    IF ~cookie.present \/ cookie.value = <<>> THEN NoData
    ELSE verify_session_token(cookie.value, t)

\* set_session_cookie that gives the browser the lifetime in minutes
set_session_cookie_minutes(admin, t) ==
    [present |-> TRUE, key |-> SESSION_COOKIE_NAME,
     value |-> create_session_token(admin.id, admin.username, t),
     max_age |-> ADMIN_SESSION_EXPIRE_MINUTES,
     httponly |-> TRUE, samesite |-> "lax"]

\* the value handed to response.set_cookie
set_session_cookie(admin, t) ==
    [present |-> TRUE, key |-> SESSION_COOKIE_NAME,
     value |-> create_session_token(admin.id, admin.username, t),
     max_age |-> ADMIN_SESSION_EXPIRE_MINUTES * 60,
     httponly |-> TRUE, samesite |-> "lax"]

\* a dependency that also looks the account up and wants it active
admin_required_active_account(cookie, t) ==
    LET d == get_current_admin(cookie, t) IN
    IF d.ok /\ d.admin_id \in DOMAIN admins /\ admins[d.admin_id].is_active
    THEN d ELSE NoData

\* routers/admin.py admin_required: the admin data, or the 303 (ok = FALSE)
admin_required(cookie, t) == get_current_admin(cookie, t)

-----------------------------------------------------------------------------
(* The tables (models.py) and the data access functions (crud.py) *)

\* Python's None in a nullable text column or an optional argument
NONE == "<None>"
OrNone(text) == IF text = "" THEN NONE ELSE text

\* SQLite gives a new row the id max(id) + 1
NextId(table) == IF DOMAIN table = {} THEN 1 ELSE Max(DOMAIN table) + 1

Insert(table, row) == [i \in DOMAIN table \cup {NextId(table)} |->
                         IF i \in DOMAIN table THEN table[i] ELSE row]
Delete(table, id) == [i \in DOMAIN table \ {id} |-> table[i]]
Count(table) == Cardinality(DOMAIN table)
EmptyTable == [i \in {} |-> 0]

\* "for key, value in kwargs.items(): if value is not None: setattr(...)"
set_if_given(old, value) == IF value = NONE THEN old ELSE value

AdminRow(username, password_hash) ==
    [username |-> username, password_hash |-> password_hash, is_active |-> TRUE]

\* create_admin on a table whose username column is not declared unique
create_admin_no_unique(store, username, password, salt) ==
    Insert(store, AdminRow(username, hash_password(password, salt)))

\* crud.create_admin, with the salt bcrypt.gensalt() drew; the column
\* username is unique (models.py), so the commit of a second row of the same
\* name raises IntegrityError and the table stays as it was
create_admin(store, username, password, salt) ==
    IF \E i \in DOMAIN store : store[i].username = username
    THEN store
    ELSE Insert(store, AdminRow(username, hash_password(password, salt)))

get_admin_by_username(store, username) == first_admin(store, username)
get_admin_count(store) == Count(store)

ProductRow(name, category, price, image_filename, description, is_active, is_best_seller, display_order) ==
    [name |-> name, category |-> category, price |-> price,
     image_filename |-> image_filename, description |-> description,
     is_active |-> is_active, is_best_seller |-> is_best_seller,
     display_order |-> display_order]

create_product(table, row) == Insert(table, row)

\* update_product that writes every keyword, None included
update_product_clearing(table, id, kw) ==
    IF id \notin DOMAIN table THEN table ELSE [table EXCEPT ![id] = kw]

update_product(table, id, kw) ==
    IF id \notin DOMAIN table THEN table
    ELSE [table EXCEPT ![id] =
            [name |-> kw.name, category |-> kw.category, price |-> kw.price,
             image_filename |-> set_if_given(@.image_filename, kw.image_filename),
             description |-> set_if_given(@.description, kw.description),
             is_active |-> kw.is_active, is_best_seller |-> kw.is_best_seller,
             display_order |-> kw.display_order]]

delete_product(table, id) == Delete(table, id)

\* a query parameter that was not sent, or an empty one, adds no filter
\* ("if category:", "if search:")
Given(value) == value # NONE /\ value # ""

\* the i-th character of a text
CharAt(text, i) == SubSeq(text, i, i)

\* LIKE of SQLite compares the ASCII letters without their case
UpperCase == "ABCDEFGHIJKLMNOPQRSTUVWXYZ"
LowerCase == "abcdefghijklmnopqrstuvwxyz"
FoldTable ==
    [ch \in {CharAt(UpperCase, i) : i \in 1..Len(UpperCase)} |->
        CharAt(LowerCase, CHOOSE i \in 1..Len(UpperCase) : CharAt(UpperCase, i) = ch)]
Fold(ch) == IF ch \in DOMAIN FoldTable THEN FoldTable[ch] ELSE ch

\* text from position i on matches pattern from position j on: "%" stands for
\* any run of characters, "_" for any one character
RECURSIVE Like(_, _, _, _)
Like(text, i, pattern, j) ==
    IF j > Len(pattern) THEN i > Len(text)
    ELSE IF CharAt(pattern, j) = "%"
    THEN \/ Like(text, i, pattern, j + 1)
         \/ i <= Len(text) /\ Like(text, i + 1, pattern, j)
    ELSE /\ i <= Len(text)
         /\ \/ CharAt(pattern, j) = "_"
            \/ Fold(CharAt(pattern, j)) = Fold(CharAt(text, i))
         /\ Like(text, i + 1, pattern, j + 1)

\* Product.name.ilike(f"%{search}%")
ilike(name, search) == Like(name, 1, "%" \o search \o "%", 1)

\* "order_by(Product.display_order, Product.id)"
ProductBefore(table, i, j) ==
    \/ table[i].display_order < table[j].display_order
    \/ table[i].display_order = table[j].display_order /\ i <= j

RECURSIVE OrderedIds(_, _)
OrderedIds(table, ids) ==
    IF ids = {} THEN <<>>
    ELSE LET m == CHOOSE i \in ids : \A j \in ids : ProductBefore(table, i, j)
         IN  <<m>> \o OrderedIds(table, ids \ {m})

\* a query that never filters on is_active
get_products_all(table, category, search, active_only, best_sellers_only) ==
    OrderedIds(table,
        {i \in DOMAIN table :
            /\ best_sellers_only => table[i].is_best_seller
            /\ Given(category) => table[i].category = category
            /\ Given(search) => ilike(table[i].name, search)})

\* crud.get_products: the ids of the rows selected, in the order of the query
get_products(table, category, search, active_only, best_sellers_only) ==
    OrderedIds(table,
        {i \in DOMAIN table :
            /\ active_only => table[i].is_active
            /\ best_sellers_only => table[i].is_best_seller
            /\ Given(category) => table[i].category = category
            /\ Given(search) => ilike(table[i].name, search)})

ScheduleRow(day_of_week, place, start_time, end_time, is_active) ==
    [day_of_week |-> day_of_week, place |-> place, start_time |-> start_time,
     end_time |-> end_time, is_active |-> is_active]

create_schedule(table, row) == Insert(table, row)

update_schedule(table, id, kw) ==
    IF id \notin DOMAIN table THEN table
    ELSE [table EXCEPT ![id] =
            [day_of_week |-> kw.day_of_week, place |-> kw.place,
             start_time |-> set_if_given(@.start_time, kw.start_time),
             end_time |-> set_if_given(@.end_time, kw.end_time),
             is_active |-> kw.is_active]]

delete_schedule(table, id) == Delete(table, id)

LocationRow(today_location, today_hours, daily_message) ==
    [today_location |-> today_location, today_hours |-> today_hours,
     daily_message |-> daily_message]

\* db.query(Location).first(): the id of the row, 0 for None
get_location(table) == IF DOMAIN table = {} THEN 0 ELSE
    CHOOSE i \in DOMAIN table : \A j \in DOMAIN table : i <= j

\* every keyword is written, None included
update_location(table, kw) ==
    IF get_location(table) = 0 THEN Insert(table, kw)
    ELSE [table EXCEPT ![get_location(table)] = kw]

ensure_location_exists(table) ==
    IF get_location(table) = 0
    THEN Insert(table, LocationRow("Parc de la Mairie - Centre-ville",
                                   "11h30 - 14h00 / 18h00 - 21h00", NONE))
    ELSE table

SettingsRow(hours_weekday, hours_evening, hours_weekend, instagram_url, tiktok_url, site_name, slogan) ==
    [hours_weekday |-> hours_weekday, hours_evening |-> hours_evening,
     hours_weekend |-> hours_weekend, instagram_url |-> instagram_url,
     tiktok_url |-> tiktok_url, site_name |-> site_name, slogan |-> slogan]

\* the column defaults of models.Settings
SettingsDefaults ==
    SettingsRow("11h30 - 14h00", "18h00 - 21h00", "09h00 - 15h00",
                "https://instagram.com", "https://tiktok.com",
                "KIOSQUE DU PARC", "Du sucre, du sale, fait minute.")

get_settings(table) == IF DOMAIN table = {} THEN 0 ELSE
    CHOOSE i \in DOMAIN table : \A j \in DOMAIN table : i <= j

SettingsFields == DOMAIN SettingsDefaults

\* a new row takes the column default for a keyword that is None
update_settings(table, kw) ==
    IF get_settings(table) = 0
    THEN Insert(table, [f \in SettingsFields |->
                          set_if_given(SettingsDefaults[f], kw[f])])
    ELSE [table EXCEPT ![get_settings(table)] =
            [f \in SettingsFields |-> set_if_given(@[f], kw[f])]]

ensure_settings_exist(table) ==
    IF get_settings(table) = 0 THEN Insert(table, SettingsDefaults) ELSE table

MessageRow(name, email, phone, subject, message, created_at) ==
    [name |-> name, email |-> email, phone |-> phone, subject |-> subject,
     message |-> message, created_at |-> created_at, is_read |-> FALSE]

create_contact_message(table, row) == Insert(table, row)

mark_message_as_read(table, id) ==
    IF id \notin DOMAIN table THEN table
    ELSE [table EXCEPT ![id].is_read = TRUE]

delete_contact_message(table, id) == Delete(table, id)

-----------------------------------------------------------------------------
(* Seeding at startup (seed.py, main.py lifespan) *)

\* the first entries of seed.INITIAL_PRODUCTS; prices in cents
INITIAL_PRODUCTS == <<
    ProductRow("Crepe au miel", "crepes_sucrees", 350, "Crepe_miel.jpeg",
               "Crepe nappee de miel dore", TRUE, TRUE, 1),
    ProductRow("Crepe caramel", "crepes_sucrees", 350, "Crepe_caramel.jpeg",
               "Crepe au caramel onctueux", TRUE, TRUE, 2) >>

\* the first entries of seed.INITIAL_SCHEDULE; is_active takes its default
INITIAL_SCHEDULE == <<
    ScheduleRow(0, "Marche du Centre", "10:00", "14:00", TRUE),
    ScheduleRow(1, "Place de la Gare", "11:30", "14:00", TRUE),
    ScheduleRow(1, "Place de la Gare", "18:00", "20:30", TRUE) >>

RECURSIVE InsertAll(_, _)
InsertAll(table, rows) ==
    IF rows = <<>> THEN table
    ELSE InsertAll(Insert(table, Head(rows)), Tail(rows))

\* seed_database that creates the default administrator only when there
\* are administrators already
seed_database_inverted(db, salt) ==
    [products |-> IF Count(db.products) = 0
                  THEN InsertAll(db.products, INITIAL_PRODUCTS)
                  ELSE db.products,
     schedules |-> IF Count(db.schedules) = 0
                   THEN InsertAll(db.schedules, INITIAL_SCHEDULE)
                   ELSE db.schedules,
     settings |-> ensure_settings_exist(db.settings),
     location |-> ensure_location_exists(db.location),
     admins |-> IF get_admin_count(db.admins) # 0
                THEN create_admin(db.admins, INIT_ADMIN_USERNAME,
                                  INIT_ADMIN_PASSWORD, salt)
                ELSE db.admins,
     messages |-> db.messages]

\* seed_database that inserts the initial products and schedule at every
\* start
seed_database_again(db, salt) ==
    [products |-> InsertAll(db.products, INITIAL_PRODUCTS),
     schedules |-> InsertAll(db.schedules, INITIAL_SCHEDULE),
     settings |-> ensure_settings_exist(db.settings),
     location |-> ensure_location_exists(db.location),
     admins |-> IF get_admin_count(db.admins) = 0
                THEN create_admin(db.admins, INIT_ADMIN_USERNAME,
                                  INIT_ADMIN_PASSWORD, salt)
                ELSE db.admins,
     messages |-> db.messages]

\* seed_database(db): the database after it, salt being gensalt()'s draw
seed_database(db, salt) ==
    [products |-> IF Count(db.products) = 0
                  THEN InsertAll(db.products, INITIAL_PRODUCTS)
                  ELSE db.products,
     schedules |-> IF Count(db.schedules) = 0
                   THEN InsertAll(db.schedules, INITIAL_SCHEDULE)
                   ELSE db.schedules,
     settings |-> ensure_settings_exist(db.settings),
     location |-> ensure_location_exists(db.location),
     admins |-> IF get_admin_count(db.admins) = 0
                THEN create_admin(db.admins, INIT_ADMIN_USERNAME,
                                  INIT_ADMIN_PASSWORD, salt)
                ELSE db.admins,
     messages |-> db.messages]

\* init_db() on a new database file: the tables exist and are empty
EmptyDb ==
    [products |-> EmptyTable, schedules |-> EmptyTable,
     settings |-> EmptyTable, location |-> EmptyTable,
     admins |-> EmptyTable, messages |-> EmptyTable]

\* the application has started on a new database
Init ==
    \E salt \in Salts :
      LET db == seed_database(EmptyDb, salt) IN
        /\ now = 0
        /\ admins = db.admins
        /\ products = db.products
        /\ schedules = db.schedules
        /\ location = db.location
        /\ settings = db.settings
        /\ messages = db.messages
        /\ jar = NoHeld
        /\ captured = NoHeld
        /\ req = NoReq
        /\ resp = NoResp

-----------------------------------------------------------------------------
(* The environment: the clock, the browser, the operator of the database *)

\* time passes, up to one of the instants
Tick(instants) ==
    /\ \E t \in instants : t > now /\ now' = t
    /\ UNCHANGED <<admins, jar, captured, req, resp, tables>>

\* someone copies the cookie out of the browser
Capture ==
    /\ jar.cookie.present
    /\ captured # jar
    /\ captured' = jar
    /\ UNCHANGED <<now, admins, jar, req, resp, tables>>

\* python -m app.create_admin username password (create_admin.py main),
\* a run that no other run interleaves with
run_create_admin(username, password, salt) ==
    /\ get_admin_by_username(admins, username) = 0
    /\ Count(admins) < MaxAdmins
    /\ admins' = create_admin(admins, username, password, salt)
    /\ UNCHANGED <<now, jar, captured, req, resp, tables>>

\* how a run of the script ends: exit status and what it printed
ScriptExit(status, error) ==
    Resp(status, "", "", error, NoSetCookie, FALSE, TRUE, NoData)

\* a run of the script in two steps, so that another run can come between
\* them. First step: get_admin_by_username; "already exists" ends the run
create_admin_check(username, password) ==
    /\ req = NoReq
    /\ req' = Req("create_admin", "missing", NoData, username, password, <<>>)
    /\ resp' = IF get_admin_by_username(admins, username) # 0
               THEN ScriptExit(1, "[ERROR] Admin already exists!")
               ELSE NoResp
    /\ UNCHANGED <<now, admins, jar, captured, tables>>

\* second step: create_admin and its commit
create_admin_commit(salt) ==
    /\ req.route = "create_admin"
    /\ resp = NoResp
    /\ admins' = create_admin(admins, req.username, req.password, salt)
    /\ resp' = IF get_admin_by_username(admins, req.username) # 0
               THEN ScriptExit(1, "IntegrityError")
               ELSE ScriptExit(0, "[OK] Admin created successfully!")
    /\ UNCHANGED <<now, jar, captured, req, tables>>

\* the application starts again on the database as it is (main.py lifespan)
lifespan(salt) ==
    /\ req = NoReq
    /\ LET db == seed_database(
                    [products |-> products, schedules |-> schedules,
                     settings |-> settings, location |-> location,
                     admins |-> admins, messages |-> messages], salt)
       IN /\ admins' = db.admins
          /\ products' = db.products
          /\ schedules' = db.schedules
          /\ settings' = db.settings
          /\ location' = db.location
          /\ messages' = db.messages
    /\ req' = Req("lifespan", "missing", NoData, "", "", <<>>)
    /\ resp' = ScriptExit(0, "[STARTUP] Application ready!")
    /\ UNCHANGED <<now, jar, captured>>

\* the application is started on a database file just created: init_db() has
\* made the tables, seed_database has not run yet
InitNew ==
    /\ now = 0
    /\ admins = EmptyDb.admins
    /\ products = EmptyDb.products
    /\ schedules = EmptyDb.schedules
    /\ location = EmptyDb.location
    /\ settings = EmptyDb.settings
    /\ messages = EmptyDb.messages
    /\ jar = NoHeld
    /\ captured = NoHeld
    /\ req = NoReq
    /\ resp = NoResp

\* a start of the application statement by statement, so that another process
\* on the same database can come between them. First the products and the
\* schedule, then the query of ensure_settings_exist: get_settings(db)
lifespan_begin ==
    /\ req = NoReq
    /\ products' = seed_database(
                      [EmptyDb EXCEPT !.products = products], 0).products
    /\ schedules' = seed_database(
                      [EmptyDb EXCEPT !.schedules = schedules], 0).schedules
    /\ req' = Req("lifespan", "missing", NoData, "", "",
                  <<"ensure_settings_exist", get_settings(settings)>>)
    /\ resp' = NoResp
    /\ UNCHANGED <<now, admins, jar, captured, location, settings, messages>>

\* "if not settings: db.add(Settings()); db.commit()" on what the query gave,
\* then the query of ensure_location_exists: get_location(db)
lifespan_settings ==
    /\ req.route = "lifespan"
    /\ resp = NoResp
    /\ req.detail[1] = "ensure_settings_exist"
    /\ settings' = IF req.detail[2] = 0
                   THEN Insert(settings, SettingsDefaults) ELSE settings
    /\ req' = [req EXCEPT !.detail =
                  <<"ensure_location_exists", get_location(location)>>]
    /\ UNCHANGED <<now, admins, jar, captured, resp,
                   products, schedules, location, messages>>

\* "if not location: db.add(Location(...)); db.commit()" on what the query
\* gave, then the default administrator and the end of the startup
lifespan_location(salt) ==
    /\ req.route = "lifespan"
    /\ resp = NoResp
    /\ req.detail[1] = "ensure_location_exists"
    /\ location' = IF req.detail[2] = 0
                   THEN Insert(location, ensure_location_exists(EmptyTable)[1])
                   ELSE location
    /\ admins' = seed_database([EmptyDb EXCEPT !.admins = admins], salt).admins
    /\ resp' = ScriptExit(0, "[STARTUP] Application ready!")
    /\ UNCHANGED <<now, jar, captured, req,
                   products, schedules, settings, messages>>

\* another process starts the application on the same database meanwhile
concurrent_lifespan(salt) ==
    /\ req.route = "lifespan"
    /\ resp = NoResp
    /\ LET db == seed_database(
                    [products |-> products, schedules |-> schedules,
                     settings |-> settings, location |-> location,
                     admins |-> admins, messages |-> messages], salt)
       IN /\ admins' = db.admins
          /\ products' = db.products
          /\ schedules' = db.schedules
          /\ settings' = db.settings
          /\ location' = db.location
          /\ messages' = db.messages
    /\ UNCHANGED <<now, jar, captured, req, resp>>

\* the column admins.is_active is written in the database, out of band
set_is_active(id, value) ==
    /\ id \in DOMAIN admins
    /\ admins[id].is_active # value
    /\ admins' = [admins EXCEPT ![id].is_active = value]
    /\ UNCHANGED <<now, jar, captured, req, resp, tables>>

\* a row of admins is deleted in the database, out of band (no function of
\* the application deletes one)
remove_admin(id) ==
    /\ id \in DOMAIN admins
    /\ admins' = Delete(admins, id)
    /\ UNCHANGED <<now, jar, captured, req, resp, tables>>

\* the column admins.password_hash is written in the database, out of band
set_password_hash(id, value) ==
    /\ id \in DOMAIN admins
    /\ admins[id].password_hash # value
    /\ admins' = [admins EXCEPT ![id].password_hash = value]
    /\ UNCHANGED <<now, jar, captured, req, resp, tables>>

\* the server handles one request at a time
Idle == req = NoReq

\* the response reaches the client
Deliver ==
    /\ ~Idle
    /\ req' = NoReq
    /\ resp' = NoResp
    /\ UNCHANGED <<now, admins, jar, captured, tables>>

\* what the browser does with the response's cookie headers
BrowserJar(old, response, subject, t) ==
    IF response.delete_cookie THEN NoHeld
    ELSE IF response.set_cookie.present
    THEN [cookie |-> response.set_cookie, set_at |-> t, subject |-> subject]
    ELSE old

\* a cookie as a request presents it, with how it came about
Pres(kind, cookie, subject, detail) ==
    [kind |-> kind, cookie |-> cookie, subject |-> subject, detail |-> detail]

Flip(token, i, c) == [token EXCEPT ![i] = c]

HeldCookies == {h \in {jar, captured} : h.cookie.present}

\* a cookie the server issued is expired once older than the session lifetime
KindOf(h) == IF now - h.set_at > max_age THEN "expired" ELSE "valid"

HeldPres(h) == Pres(KindOf(h), Cookie(h.cookie.value), h.subject, <<>>)

\* what the browser sends
BrowserPres ==
    IF jar.cookie.present THEN HeldPres(jar)
    ELSE Pres("missing", NoCookie, NoData, <<>>)

\* the cookie a request can carry: none, an empty one, the browser's, the
\* captured one, one signed with another key in the name of an account, a
\* held one in which the admin id is rewritten
Presentations ==
    {Pres("missing", NoCookie, NoData, <<>>),
     Pres("empty", Cookie(<<>>), NoData, <<>>)}
    \cup {HeldPres(h) : h \in HeldCookies}
    \cup {Pres("forged",
               Cookie(dumps(ForgerKey, Data(i, admins[i].username), now)),
               Data(i, admins[i].username), <<>>) : i \in DOMAIN admins}
    \cup {Pres("tampered",
               Cookie(Flip(h.cookie.value, 1, (h.cookie.value[1] % MaxAdmins) + 1)),
               h.subject, <<1, (h.cookie.value[1] % MaxAdmins) + 1>>) :
            h \in HeldCookies}

\* the timestamp of a token replaced by another instant, signature kept
Redate(token, t) ==
    [i \in 1..Len(token) |->
        IF i > PayloadLen + 1 /\ i <= ValueLen
        THEN encode_timestamp(t)[i - PayloadLen - 1] ELSE token[i]]

\* tokens whose signature does not cover their timestamp: signed with
\* another key at any past instant, or a held one given another timestamp
Stale ==
    {Pres("forged", Cookie(dumps(ForgerKey, Data(i, admins[i].username), t)),
          Data(i, admins[i].username), <<t>>) :
        i \in DOMAIN admins, t \in {u \in TimePoints : u < now}}
    \cup UNION {{Pres("redated", Cookie(Redate(h.cookie.value, t)),
                       h.subject, <<t>>) :
                    t \in {u \in TimePoints : u <= now /\ u # h.set_at}} :
                 h \in HeldCookies}

\* the browser's cookie with one character replaced by another
Flipped ==
    IF ~jar.cookie.present THEN {}
    ELSE LET v == jar.cookie.value IN
         {Pres("flipped", Cookie(Flip(v, x[1], x[2])), jar.subject, x) :
            x \in {y \in (1..Len(v)) \X Symbols : v[y[1]] # y[2]}}

-----------------------------------------------------------------------------
(* Auth routes (routers/admin.py) *)

\* login_submit that clears the session cookie when the login fails
login_submit_response_clearing(store, username, password, t) ==
    LET admin == authenticate_admin(store, username, password) IN
    IF authenticate_admin_raises(store, username, password) THEN ServerError
    ELSE IF ~admin.found
    THEN Resp(200, "", "admin/login.html", "Identifiants invalides",
              NoSetCookie, TRUE, TRUE, NoData)
    ELSE Resp(303, "/admin", "", "", set_session_cookie(admin, t),
              FALSE, TRUE, NoData)

\* login_submit that tells an unknown username from a wrong password
login_submit_response_telling(store, username, password, t) ==
    LET admin == authenticate_admin(store, username, password) IN
    IF authenticate_admin_raises(store, username, password) THEN ServerError
    ELSE IF ~admin.found
    THEN Resp(200, "", "admin/login.html",
              IF first_admin(store, username) = 0
              THEN "Utilisateur inconnu" ELSE "Identifiants invalides",
              NoSetCookie, FALSE, TRUE, NoData)
    ELSE Resp(303, "/admin", "", "", set_session_cookie(admin, t),
              FALSE, TRUE, NoData)

\* POST /admin/login
login_submit_response(store, username, password, t) ==
    LET admin == authenticate_admin(store, username, password) IN
    IF authenticate_admin_raises(store, username, password) THEN ServerError
    ELSE IF ~admin.found
    THEN Resp(200, "", "admin/login.html", "Identifiants invalides",
              NoSetCookie, FALSE, TRUE, NoData)
    ELSE Resp(303, "/admin", "", "", set_session_cookie(admin, t),
              FALSE, TRUE, NoData)

\* the browser posts the login form
login_submit(username, password) ==
    /\ Idle
    /\ req' = Req("login_submit", BrowserPres.kind, BrowserPres.subject,
                  username, password, <<>>)
    /\ resp' = login_submit_response(admins, username, password, now)
    /\ jar' = BrowserJar(jar, resp',
                         Data(first_admin(admins, username), username), now)
    /\ UNCHANGED <<now, admins, captured, tables>>

\* logout that redirects without deleting the cookie
logout_response_keeping ==
    Resp(303, "/admin/login", "", "", NoSetCookie, FALSE, TRUE, NoData)

\* GET /admin/logout
logout_response ==
    Resp(303, "/admin/login", "", "", NoSetCookie, TRUE, TRUE, NoData)

\* logout that fails when the request carries no session cookie
logout_needing_session ==
    /\ Idle
    /\ req' = Req("logout", BrowserPres.kind, BrowserPres.subject, "", "", <<>>)
    /\ resp' = IF jar.cookie.present THEN logout_response ELSE ServerError
    /\ jar' = BrowserJar(jar, resp', NoData, now)
    /\ UNCHANGED <<now, admins, captured, tables>>

\* the browser follows the logout link
logout ==
    /\ Idle
    /\ req' = Req("logout", BrowserPres.kind, BrowserPres.subject, "", "", <<>>)
    /\ resp' = logout_response
    /\ jar' = BrowserJar(jar, resp', NoData, now)
    /\ UNCHANGED <<now, admins, captured, tables>>

\* GET /admin/login
login_page(c) ==
    /\ Idle
    /\ req' = Req("login_page", c.kind, c.subject, "", "", <<>>)
    /\ resp' = IF get_current_admin(c.cookie, now).ok
               THEN Redirect("/admin", NoData)
               ELSE Template("admin/login.html", "", NoData)
    /\ jar' = IF c = BrowserPres
              THEN BrowserJar(jar, resp', c.subject, now) ELSE jar
    /\ UNCHANGED <<now, admins, captured, tables>>

-----------------------------------------------------------------------------
(* Guarded routes (routers/admin.py): "admin: dict = Depends(admin_required)" *)

\* rows the tables can hold beyond the seeded ones
ExtraRows == 1
MaxProducts == Len(INITIAL_PRODUCTS) + ExtraRows
MaxSchedules == Len(INITIAL_SCHEDULE) + ExtraRows
MaxMessages == ExtraRows

\* the value of the dependency for the request's cookie
Admin(c) == admin_required(c.cookie, now)

\* the browser applies the cookie headers of the responses it receives
JarAfter(c, response) ==
    IF c = BrowserPres THEN BrowserJar(jar, response, c.subject, now) ELSE jar

\* a handler whose answer renews the session cookie (sliding expiry)
PageRenewing(route, c, response) ==
    /\ Idle
    /\ req' = Req(route, c.kind, c.subject, "", "", c.detail)
    /\ resp' = IF Admin(c).ok
               THEN [response EXCEPT !.set_cookie =
                       set_session_cookie([id |-> Admin(c).admin_id,
                                           username |-> Admin(c).username], now)]
               ELSE LoginRedirect
    /\ jar' = JarAfter(c, resp')
    /\ UNCHANGED <<now, admins, captured, tables>>

\* a handler that only reads: the dependency, then the page
Page(route, c, response) ==
    /\ Idle
    /\ req' = Req(route, c.kind, c.subject, "", "", c.detail)
    /\ resp' = IF Admin(c).ok THEN response ELSE LoginRedirect
    /\ jar' = JarAfter(c, resp')
    /\ UNCHANGED <<now, admins, captured, tables>>

dashboard(c) ==
    Page("dashboard", c, Template("admin/dashboard.html", "", Admin(c)))

products_list(c) ==
    Page("products_list", c,
         Template("admin/products_list.html", "", Admin(c)))

product_new(c) ==
    Page("product_new", c,
         Template("admin/product_form.html", "", Admin(c)))

product_create(c, form) ==
    /\ Idle
    /\ req' = Req("product_create", c.kind, c.subject, "", "", c.detail)
    /\ IF ~Admin(c).ok
       THEN resp' = LoginRedirect /\ UNCHANGED products
       ELSE /\ Count(products) < MaxProducts
            /\ products' = create_product(products,
                  [form EXCEPT !.image_filename = OrNone(@),
                               !.description = OrNone(@)])
            /\ resp' = Redirect("/admin/products", Admin(c))
    /\ jar' = JarAfter(c, resp')
    /\ UNCHANGED <<now, admins, captured,
                   schedules, location, settings, messages>>

product_edit(c, product_id) ==
    Page("product_edit", c,
         IF product_id \in DOMAIN products
         THEN Template("admin/product_form.html", "", Admin(c))
         ELSE NotFound(Admin(c)))

product_update(c, product_id, form) ==
    /\ Idle
    /\ req' = Req("product_update", c.kind, c.subject, "", "", c.detail)
    /\ IF ~Admin(c).ok
       THEN resp' = LoginRedirect /\ UNCHANGED products
       ELSE IF product_id \notin DOMAIN products
       THEN resp' = NotFound(Admin(c)) /\ UNCHANGED products
       ELSE /\ products' = update_product(products, product_id,
                  [form EXCEPT !.image_filename = OrNone(@),
                               !.description = OrNone(@)])
            /\ resp' = Redirect("/admin/products", Admin(c))
    /\ jar' = JarAfter(c, resp')
    /\ UNCHANGED <<now, admins, captured,
                   schedules, location, settings, messages>>

product_delete_confirm(c, product_id) ==
    Page("product_delete_confirm", c,
         IF product_id \in DOMAIN products
         THEN Template("admin/product_delete.html", "", Admin(c))
         ELSE NotFound(Admin(c)))

product_delete_action(c, product_id) ==
    /\ Idle
    /\ req' = Req("product_delete_action", c.kind, c.subject, "", "", c.detail)
    /\ IF ~Admin(c).ok
       THEN resp' = LoginRedirect /\ UNCHANGED products
       ELSE IF product_id \notin DOMAIN products
       THEN resp' = NotFound(Admin(c)) /\ UNCHANGED products
       ELSE /\ products' = delete_product(products, product_id)
            /\ resp' = Redirect("/admin/products", Admin(c))
    /\ jar' = JarAfter(c, resp')
    /\ UNCHANGED <<now, admins, captured,
                   schedules, location, settings, messages>>

location_edit(c) ==
    Page("location_edit", c,
         Template("admin/location_form.html", "", Admin(c)))

location_update(c, form) ==
    /\ Idle
    /\ req' = Req("location_update", c.kind, c.subject, "", "", c.detail)
    /\ IF ~Admin(c).ok
       THEN resp' = LoginRedirect /\ UNCHANGED location
       ELSE /\ location' = update_location(location,
                  LocationRow(OrNone(form.today_location),
                              OrNone(form.today_hours),
                              OrNone(form.daily_message)))
            /\ resp' = Template("admin/location_form.html", "", Admin(c))
    /\ jar' = JarAfter(c, resp')
    /\ UNCHANGED <<now, admins, captured,
                   products, schedules, settings, messages>>

schedule_list(c) ==
    Page("schedule_list", c,
         Template("admin/schedule_list.html", "", Admin(c)))

schedule_new(c) ==
    Page("schedule_new", c,
         Template("admin/schedule_form.html", "", Admin(c)))

\* "start_time if place == 'Ouvert' else None"
ScheduleKw(form) ==
    [form EXCEPT !.start_time = IF form.place = "Ouvert" THEN @ ELSE NONE,
                 !.end_time = IF form.place = "Ouvert" THEN @ ELSE NONE]

schedule_create(c, form) ==
    /\ Idle
    /\ req' = Req("schedule_create", c.kind, c.subject, "", "", c.detail)
    /\ IF ~Admin(c).ok
       THEN resp' = LoginRedirect /\ UNCHANGED schedules
       ELSE /\ Count(schedules) < MaxSchedules
            /\ schedules' = create_schedule(schedules, ScheduleKw(form))
            /\ resp' = Redirect("/admin/schedule", Admin(c))
    /\ jar' = JarAfter(c, resp')
    /\ UNCHANGED <<now, admins, captured,
                   products, location, settings, messages>>

schedule_edit(c, schedule_id) ==
    Page("schedule_edit", c,
         IF schedule_id \in DOMAIN schedules
         THEN Template("admin/schedule_form.html", "", Admin(c))
         ELSE NotFound(Admin(c)))

schedule_update_action(c, schedule_id, form) ==
    /\ Idle
    /\ req' = Req("schedule_update_action", c.kind, c.subject, "", "", c.detail)
    /\ IF ~Admin(c).ok
       THEN resp' = LoginRedirect /\ UNCHANGED schedules
       ELSE IF schedule_id \notin DOMAIN schedules
       THEN resp' = NotFound(Admin(c)) /\ UNCHANGED schedules
       ELSE /\ schedules' = update_schedule(schedules, schedule_id,
                                            ScheduleKw(form))
            /\ resp' = Redirect("/admin/schedule", Admin(c))
    /\ jar' = JarAfter(c, resp')
    /\ UNCHANGED <<now, admins, captured,
                   products, location, settings, messages>>

schedule_delete_confirm(c, schedule_id) ==
    Page("schedule_delete_confirm", c,
         IF schedule_id \in DOMAIN schedules
         THEN Template("admin/schedule_delete.html", "", Admin(c))
         ELSE NotFound(Admin(c)))

schedule_delete_action(c, schedule_id) ==
    /\ Idle
    /\ req' = Req("schedule_delete_action", c.kind, c.subject, "", "", c.detail)
    /\ IF ~Admin(c).ok
       THEN resp' = LoginRedirect /\ UNCHANGED schedules
       ELSE IF schedule_id \notin DOMAIN schedules
       THEN resp' = NotFound(Admin(c)) /\ UNCHANGED schedules
       ELSE /\ schedules' = delete_schedule(schedules, schedule_id)
            /\ resp' = Redirect("/admin/schedule", Admin(c))
    /\ jar' = JarAfter(c, resp')
    /\ UNCHANGED <<now, admins, captured,
                   products, location, settings, messages>>

settings_edit(c) ==
    Page("settings_edit", c,
         Template("admin/settings_form.html", "", Admin(c)))

settings_update(c, form) ==
    /\ Idle
    /\ req' = Req("settings_update", c.kind, c.subject, "", "", c.detail)
    /\ IF ~Admin(c).ok
       THEN resp' = LoginRedirect /\ UNCHANGED settings
       ELSE /\ settings' = update_settings(settings,
                  [f \in SettingsFields |-> OrNone(form[f])])
            /\ resp' = Template("admin/settings_form.html", "", Admin(c))
    /\ jar' = JarAfter(c, resp')
    /\ UNCHANGED <<now, admins, captured,
                   products, schedules, location, messages>>

messages_list(c) ==
    Page("messages_list", c,
         Template("admin/messages_list.html", "", Admin(c)))

\* a view that flips the flag: a second view makes the message unread again
message_view_toggling(c, message_id) ==
    /\ Idle
    /\ req' = Req("message_view", c.kind, c.subject, "", "", c.detail)
    /\ IF ~Admin(c).ok
       THEN resp' = LoginRedirect /\ UNCHANGED messages
       ELSE IF message_id \notin DOMAIN messages
       THEN resp' = NotFound(Admin(c)) /\ UNCHANGED messages
       ELSE /\ messages' = [messages EXCEPT ![message_id].is_read = ~@]
            /\ resp' = Template("admin/message_view.html", "", Admin(c))
    /\ jar' = JarAfter(c, resp')
    /\ UNCHANGED <<now, admins, captured,
                   products, schedules, location, settings>>

\* GET /admin/messages/{message_id}: marks the message as read
message_view(c, message_id) ==
    /\ Idle
    /\ req' = Req("message_view", c.kind, c.subject, "", "", c.detail)
    /\ IF ~Admin(c).ok
       THEN resp' = LoginRedirect /\ UNCHANGED messages
       ELSE IF message_id \notin DOMAIN messages
       THEN resp' = NotFound(Admin(c)) /\ UNCHANGED messages
       ELSE /\ messages' = IF ~messages[message_id].is_read
                           THEN mark_message_as_read(messages, message_id)
                           ELSE messages
            /\ resp' = Template("admin/message_view.html", "", Admin(c))
    /\ jar' = JarAfter(c, resp')
    /\ UNCHANGED <<now, admins, captured,
                   products, schedules, location, settings>>

message_delete_confirm(c, message_id) ==
    Page("message_delete_confirm", c,
         IF message_id \in DOMAIN messages
         THEN Template("admin/message_delete.html", "", Admin(c))
         ELSE NotFound(Admin(c)))

message_delete_action(c, message_id) ==
    /\ Idle
    /\ req' = Req("message_delete_action", c.kind, c.subject, "", "", c.detail)
    /\ IF ~Admin(c).ok
       THEN resp' = LoginRedirect /\ UNCHANGED messages
       ELSE IF message_id \notin DOMAIN messages
       THEN resp' = NotFound(Admin(c)) /\ UNCHANGED messages
       ELSE /\ messages' = delete_contact_message(messages, message_id)
            /\ resp' = Redirect("/admin/messages", Admin(c))
    /\ jar' = JarAfter(c, resp')
    /\ UNCHANGED <<now, admins, captured,
                   products, schedules, location, settings>>

-----------------------------------------------------------------------------
(* Public API (routers/api.py) *)

\* POST /api/contact: no authentication
api_submit_contact(data) ==
    /\ Idle
    /\ Count(messages) < MaxMessages
    /\ req' = Req("api_submit_contact", "missing", NoData, "", "", <<>>)
    /\ messages' = create_contact_message(messages,
           MessageRow(data.name, data.email, data.phone, data.subject,
                      data.message, now))
    /\ resp' = Template("", "", NoData)
    /\ UNCHANGED <<now, admins, jar, captured,
                   products, schedules, location, settings>>

\* the HH:MM texts in use, in the order SQL compares them
Clock == <<"09:00", "10:00", "11:30", "14:00", "15:00", "18:00", "20:30">>
\* ORDER BY puts NULL first, then the texts in their order
TimeRank(t) ==
    IF \E i \in DOMAIN Clock : Clock[i] = t
    THEN CHOOSE i \in DOMAIN Clock : Clock[i] = t
    ELSE 0

\* "ORDER BY day_of_week, start_time"; rows that tie come in id order
ScheduleBefore(table, i, j) ==
    \/ table[i].day_of_week < table[j].day_of_week
    \/ /\ table[i].day_of_week = table[j].day_of_week
       /\ \/ TimeRank(table[i].start_time) < TimeRank(table[j].start_time)
          \/ /\ TimeRank(table[i].start_time) = TimeRank(table[j].start_time)
             /\ i <= j

RECURSIVE OrderedRows(_, _)
OrderedRows(table, ids) ==
    IF ids = {} THEN <<>>
    ELSE LET m == CHOOSE i \in ids : \A j \in ids : ScheduleBefore(table, i, j)
         IN  <<table[m]>> \o OrderedRows(table, ids \ {m})

\* crud.get_schedules(db, active_only)
get_schedules(table, active_only) ==
    OrderedRows(table, {i \in DOMAIN table : ~active_only \/ table[i].is_active})

\* models.DAY_NAMES
DAY_NAMES == <<"Lundi", "Mardi", "Mercredi", "Jeudi", "Vendredi", "Samedi",
               "Dimanche">>

\* one "start - end" of the hours text; the text "-" is the part Dash
Range(start_time, end_time) == [start |-> start_time, end |-> end_time]
Dash == Range("-", "-")
Truthy(text) == text # NONE /\ text # ""

\* the hours text of one row: a sequence of parts, joined by " / "
HoursOf(schedule) ==
    IF schedule.place = "Ouvert" /\ Truthy(schedule.start_time)
       /\ Truthy(schedule.end_time)
    THEN <<Range(schedule.start_time, schedule.end_time)>>
    ELSE <<Dash>>

\* next(s for s in result if same day_index and place), 0 for None
Existing(result, schedule) ==
    LET hits == {k \in DOMAIN result :
                    /\ result[k].day_index = schedule.day_of_week
                    /\ result[k].place = schedule.place}
    IN  IF hits = {} THEN 0 ELSE CHOOSE k \in hits : \A l \in hits : k <= l

\* the loop of api_get_schedule over the rows that remain
RECURSIVE GroupSchedules(_, _)
GroupSchedules(rows, result) ==
    IF rows = <<>> THEN result
    ELSE
      LET schedule == Head(rows)
          hours == HoursOf(schedule)
          existing == Existing(result, schedule)
      IN
      IF existing # 0 /\ hours # <<Dash>>
      THEN GroupSchedules(Tail(rows),
               [result EXCEPT ![existing].hours = @ \o hours])
      ELSE GroupSchedules(Tail(rows), Append(result,
               [day |-> DAY_NAMES[schedule.day_of_week + 1],
                day_index |-> schedule.day_of_week,
                place |-> schedule.place,
                hours |-> hours,
                is_weekend |-> schedule.day_of_week >= 5]))

\* sorted(result, key=day_index): a stable sort
RECURSIVE SortedByDay(_)
SortedByDay(result) ==
    IF result = <<>> THEN <<>>
    ELSE LET m == CHOOSE k \in DOMAIN result :
                    \A l \in DOMAIN result :
                        \/ result[k].day_index < result[l].day_index
                        \/ result[k].day_index = result[l].day_index /\ k <= l
         IN  <<result[m]>> \o
             SortedByDay([k \in 1..(Len(result) - 1) |->
                            IF k < m THEN result[k] ELSE result[k + 1]])

\* what GET /api/schedule returns for the table
schedule_body(table) ==
    SortedByDay(GroupSchedules(get_schedules(table, TRUE), <<>>))

\* GET /api/schedule: no authentication
api_get_schedule ==
    /\ Idle
    /\ req' = Req("api_get_schedule", "missing", NoData, "", "", <<>>)
    /\ resp' = Template("", "", NoData)
    /\ UNCHANGED <<now, admins, jar, captured, tables>>

\* models.CATEGORY_NAMES, without the accents
CATEGORY_NAMES(category) ==
    CASE category = "crepes_sucrees" -> "Crepes sucrees"
      [] category = "crepes_salees" -> "Crepes salees"
      [] category = "gaufres" -> "Gaufres"
      [] category = "box" -> "Box"
      [] OTHER -> category

\* api.format_product_for_api
format_product_for_api(table, id) ==
    [id |-> id, name |-> table[id].name, category |-> table[id].category,
     category_label |-> CATEGORY_NAMES(table[id].category),
     price |-> table[id].price,
     image |-> IF Truthy(table[id].image_filename)
               THEN "assets/img/" \o table[id].image_filename ELSE "",
     alt |-> IF Truthy(table[id].description)
             THEN table[id].description ELSE table[id].name,
     tags |-> IF table[id].category \in {"crepes_sucrees", "gaufres"}
              THEN <<"sweet">>
              ELSE IF table[id].category \in {"crepes_salees", "box"}
              THEN <<"savory">> ELSE <<>>,
     bestseller |-> table[id].is_best_seller]

FormatAll(table, ids) == [k \in DOMAIN ids |-> format_product_for_api(table, ids[k])]

\* the body of GET /api/products?category=..&search=..
products_body(table, category, search) ==
    FormatAll(table, get_products(table, category, search, TRUE, FALSE))

\* the body of GET /api/products/best-sellers
best_sellers_body(table) ==
    FormatAll(table, get_products(table, NONE, NONE, TRUE, TRUE))

\* GET /api/products: no authentication
api_get_products(category, search) ==
    /\ Idle
    /\ req' = Req("api_get_products", "missing", NoData, "", "",
                  <<category, search>>)
    /\ resp' = Template("", "", NoData)
    /\ UNCHANGED <<now, admins, jar, captured, tables>>

\* GET /api/products/best-sellers: no authentication
api_get_best_sellers ==
    /\ Idle
    /\ req' = Req("api_get_best_sellers", "missing", NoData, "", "", <<>>)
    /\ resp' = Template("", "", NoData)
    /\ UNCHANGED <<now, admins, jar, captured, tables>>

-----------------------------------------------------------------------------
(* Inputs of the requests *)

LoginUsernames == Usernames \cup {"nobody"}
LoginPasswords == Passwords

\* the forms that create a row, the forms that edit one, the rows aimed at
ProductForms ==
    {ProductRow("Gaufre nature", "gaufres", 400, "", "", FALSE, FALSE, 0)}
ProductEditForms ==
    {ProductRow("Gaufre sucre", "gaufres", 450, "Gaufre.jpeg", "", TRUE, FALSE, 0)}
ProductIdInputs == {Len(INITIAL_PRODUCTS) + 1}
\* forms of the product pages: inactive, best seller sorting first, and an
\* edit that leaves the image and the description empty
ProductApiForms ==
    {ProductRow("Gaufre nature", "gaufres", 400, "", "", FALSE, TRUE, 0),
     ProductRow("Gaufre miel", "gaufres", 450, "Gaufre.jpeg", "", TRUE, TRUE, 0),
     ProductRow("Crepe bio", "crepes_sucrees", 400, "", "", TRUE, FALSE, 2)}
\* ?category= and ?search= of GET /api/products; NONE is a parameter not sent
QueryCategories == {NONE, "gaufres", "crepes_sucrees"}
QuerySearches == {NONE, "", "MIEL", "gaufre", "r_p"}

ScheduleForms == {ScheduleRow(6, "Ferme", "09:00", "", FALSE)}
ScheduleEditForms == {ScheduleRow(6, "Ouvert", "09:00", "15:00", TRUE)}
ScheduleIdInputs == {Len(INITIAL_SCHEDULE) + 1}

\* schedule forms for the public schedule: closed, open, open later
ScheduleApiForms ==
    ScheduleForms \cup ScheduleEditForms
    \cup {ScheduleRow(6, "Ouvert", "15:00", "18:00", TRUE)}

LocationForms == {LocationRow("Place de la Gare", "", "")}

SettingsForms ==
    {[f \in SettingsFields |-> IF f = "slogan" THEN "Fait minute." ELSE ""]}

ContactForms ==
    {[name |-> "Client", email |-> "client@example.org", phone |-> NONE,
      subject |-> "Commande", message |-> "Bonjour"]}
MessageIdInputs == {1}

-----------------------------------------------------------------------------
(* Specifications *)

AuthRoutes ==
    \/ \E u \in LoginUsernames, p \in LoginPasswords : login_submit(u, p)
    \/ logout
    \/ \E c \in Presentations : login_page(c)

Operator ==
    \/ \E u \in Usernames, p \in Passwords, s \in Salts :
          run_create_admin(u, p, s)
    \/ \E i \in 1..MaxAdmins, b \in BOOLEAN : set_is_active(i, b)

\* the session life cycle: logins, logouts, time, changes to the accounts
Next ==
    \/ Tick(TimePoints)
    \/ Deliver
    \/ Capture
    \/ Operator
    \/ AuthRoutes
    \/ \E c \in Presentations : dashboard(c)

Spec == Init /\ [][Next]_vars

ProductRoutes(c) ==
        \/ products_list(c)
        \/ product_new(c)
        \/ \E f \in ProductForms : product_create(c, f)
        \/ \E i \in ProductIdInputs : product_edit(c, i)
        \/ \E i \in ProductIdInputs, f \in ProductEditForms : product_update(c, i, f)
        \/ \E i \in ProductIdInputs : product_delete_confirm(c, i)
        \/ \E i \in ProductIdInputs : product_delete_action(c, i)

ScheduleRoutes(c) ==
        \/ schedule_list(c)
        \/ schedule_new(c)
        \/ \E f \in ScheduleForms : schedule_create(c, f)
        \/ \E i \in ScheduleIdInputs : schedule_edit(c, i)
        \/ \E i \in ScheduleIdInputs, f \in ScheduleEditForms :
              schedule_update_action(c, i, f)
        \/ \E i \in ScheduleIdInputs : schedule_delete_confirm(c, i)
        \/ \E i \in ScheduleIdInputs : schedule_delete_action(c, i)

OtherRoutes(c) ==
        \/ dashboard(c)
        \/ location_edit(c)
        \/ \E f \in LocationForms : location_update(c, f)
        \/ settings_edit(c)
        \/ \E f \in SettingsForms : settings_update(c, f)
        \/ messages_list(c)
        \/ \E i \in MessageIdInputs : message_view(c, i)
        \/ \E i \in MessageIdInputs : message_delete_confirm(c, i)
        \/ \E i \in MessageIdInputs : message_delete_action(c, i)

\* the admin surface: every route of routers/admin.py, and the contact form
NextAdmin ==
    \/ Tick({max_age + 1})
    \/ Deliver
    \/ \E p \in LoginPasswords : login_submit(INIT_ADMIN_USERNAME, p)
    \/ logout
    \/ \E c \in Presentations :
          ProductRoutes(c) \/ ScheduleRoutes(c) \/ OtherRoutes(c)
    \/ \E d \in ContactForms : api_submit_contact(d)

SpecAdmin == Init /\ [][NextAdmin]_vars

\* the token codec: a session cookie, and every one-character change of it
NextCodec ==
    \/ Tick(TimePoints)
    \/ Deliver
    \/ \E u \in Usernames, s \in Salts :
          run_create_admin(u, INIT_ADMIN_PASSWORD, s)
    \/ \E u \in Usernames : login_submit(u, INIT_ADMIN_PASSWORD)
    \/ \E c \in Flipped \cup {BrowserPres} : dashboard(c)

SpecCodec == Init /\ [][NextCodec]_vars

\* the verification of tokens: issued ones at every age, and tokens whose
\* signature does not match, with old and with fresh timestamps
NextToken ==
    \/ Tick(TimePoints)
    \/ Deliver
    \/ Capture
    \/ \E s \in Salts : run_create_admin(UsernameSeq[2], INIT_ADMIN_PASSWORD, s)
    \/ \E u \in Usernames : login_submit(u, INIT_ADMIN_PASSWORD)
    \/ logout
    \/ \E c \in Presentations \cup Stale : dashboard(c)

SpecToken == Init /\ [][NextToken]_vars

\* logins against a store whose hashes were written by hand
NextHash ==
    \/ Deliver
    \/ Operator
    \/ \E i \in 1..MaxAdmins, h \in MalformedHashes : set_password_hash(i, h)
    \/ \E u \in LoginUsernames, p \in LoginPasswords : login_submit(u, p)
    \/ logout

SpecHash == Init /\ [][NextHash]_vars

\* the credential store: startups, runs of the create_admin script that
\* overlap, accounts switched off and on, logins
NextStore ==
    \/ Deliver
    \/ Operator
    \/ \E u \in Usernames, p \in Passwords : create_admin_check(u, p)
    \/ \E s \in Salts : create_admin_commit(s)
    \/ \E s \in Salts : lifespan(s)
    \/ \E u \in LoginUsernames : login_submit(u, INIT_ADMIN_PASSWORD)
    \/ logout

SpecStore == Init /\ [][NextStore]_vars

\* the weekly schedule: the administrator edits it, the public reads it
NextSchedule ==
    \/ Deliver
    \/ login_submit(INIT_ADMIN_USERNAME, INIT_ADMIN_PASSWORD)
    \/ \E f \in ScheduleApiForms : schedule_create(BrowserPres, f)
    \/ \E i \in 1..MaxSchedules, f \in ScheduleApiForms :
          schedule_update_action(BrowserPres, i, f)
    \/ \E i \in ScheduleIdInputs : schedule_delete_action(BrowserPres, i)
    \/ api_get_schedule

SpecSchedule == Init /\ [][NextSchedule]_vars

\* a server answers once a startup has completed
Started == Count(admins) > 0

\* two processes on one database: startups statement by statement, and the
\* location and settings forms
NextSingleton ==
    \/ Deliver
    \/ lifespan_begin
    \/ lifespan_settings
    \/ \E s \in Salts : lifespan_location(s)
    \/ \E s \in Salts : concurrent_lifespan(s)
    \/ Started /\ login_submit(INIT_ADMIN_USERNAME, INIT_ADMIN_PASSWORD)
    \/ Started /\ \E f \in LocationForms \cup {LocationRow("", "10h - 12h", "Complet")} :
          location_update(BrowserPres, f)
    \/ Started /\ \E f \in SettingsForms : settings_update(BrowserPres, f)

SpecSingleton == InitNew /\ [][NextSingleton]_vars

\* sessions that outlive their accounts: logins, guarded requests with the
\* cookies held, and accounts created, deactivated and deleted meanwhile
NextGuard ==
    \/ Tick(TimePoints)
    \/ Deliver
    \/ Capture
    \/ \E u \in Usernames, s \in Salts :
          run_create_admin(u, INIT_ADMIN_PASSWORD, s)
    \/ \E i \in 1..MaxAdmins : set_is_active(i, FALSE)
    \/ \E i \in 1..MaxAdmins : remove_admin(i)
    \/ \E u \in Usernames : login_submit(u, INIT_ADMIN_PASSWORD)
    \/ \E h \in HeldCookies : dashboard(HeldPres(h))

SpecGuard == Init /\ [][NextGuard]_vars

\* the contact form and the administrator's message pages
NextMessages ==
    \/ Tick(TimePoints)
    \/ Deliver
    \/ login_submit(INIT_ADMIN_USERNAME, INIT_ADMIN_PASSWORD)
    \/ logout
    \/ \E d \in ContactForms : api_submit_contact(d)
    \/ messages_list(BrowserPres)
    \/ \E i \in 1..(MaxMessages + 1) : message_view(BrowserPres, i)
    \/ \E i \in 1..(MaxMessages + 1) : message_delete_action(BrowserPres, i)

SpecMessages == Init /\ [][NextMessages]_vars

\* restarts of the application between the administrator's edits and
\* deletions of products and schedule entries
NextRestart ==
    \/ Deliver
    \/ login_submit(INIT_ADMIN_USERNAME, INIT_ADMIN_PASSWORD)
    \/ \E i \in 1..MaxProducts, f \in ProductEditForms \cup ProductForms :
          product_update(BrowserPres, i, f)
    \/ \E i \in 1..MaxProducts : product_delete_action(BrowserPres, i)
    \/ \E i \in 1..MaxSchedules, f \in ScheduleEditForms \cup ScheduleForms :
          schedule_update_action(BrowserPres, i, f)
    \/ \E i \in 1..MaxSchedules : schedule_delete_action(BrowserPres, i)
    \/ \E f \in SettingsForms : settings_update(BrowserPres, f)
    \/ \E s \in Salts : lifespan(s)

SpecRestart == Init /\ [][NextRestart]_vars

\* the catalogue: the administrator's product forms, restarts of the
\* application, and the public product lists
NextProducts ==
    \/ Deliver
    \/ login_submit(INIT_ADMIN_USERNAME, INIT_ADMIN_PASSWORD)
    \/ \E f \in ProductApiForms : product_create(BrowserPres, f)
    \/ \E i \in 1..MaxProducts, f \in ProductApiForms :
          product_update(BrowserPres, i, f)
    \/ \E i \in 1..MaxProducts : product_delete_action(BrowserPres, i)
    \/ \E s \in Salts : lifespan(s)
    \/ \E c \in QueryCategories, s \in QuerySearches : api_get_products(c, s)
    \/ api_get_best_sellers

SpecProducts == Init /\ [][NextProducts]_vars

-----------------------------------------------------------------------------
(* Properties *)

\* the routes of routers/admin.py declared with Depends(admin_required)
GuardedRoutes ==
    {"dashboard", "products_list", "product_new", "product_create",
     "product_edit", "product_update", "product_delete_confirm",
     "product_delete_action", "location_edit", "location_update",
     "schedule_list", "schedule_new", "schedule_create", "schedule_edit",
     "schedule_update_action", "schedule_delete_confirm",
     "schedule_delete_action", "settings_edit", "settings_update",
     "messages_list", "message_view", "message_delete_confirm",
     "message_delete_action"}

\* the store holds an active administrator of that name whose hash was made
\* from that password
CredentialsOk(store, username, password) ==
    \E i \in DOMAIN store :
        /\ store[i].username = username
        /\ store[i].is_active
        /\ \E salt \in Salts : store[i].password_hash = hashpw(password, salt)

\* this step serves a request to that route
Serves(route) == Idle /\ req'.route = route
ServesGuarded == Idle /\ req'.route \in GuardedRoutes

InvalidCredentials ==
    Resp(200, "", "admin/login.html", "Identifiants invalides",
         NoSetCookie, FALSE, TRUE, NoData)

\* C1: a login succeeds (303 to /admin with a session cookie, which the
\* browser keeps) exactly when the store holds an active administrator of
\* that username whose hash verifies the password; otherwise the answer is
\* "Identifiants invalides", also for an inactive administrator
C1_LoginIffActiveAndVerified ==
    [][Serves("login_submit") =>
        IF CredentialsOk(admins, req'.username, req'.password)
        THEN /\ resp'.status = 303 /\ resp'.location = "/admin"
             /\ resp'.set_cookie.present
             /\ resp'.set_cookie.key = SESSION_COOKIE_NAME
             /\ jar'.cookie = resp'.set_cookie
        ELSE /\ ~resp'.set_cookie.present
             /\ resp'.error = "Identifiants invalides"]_vars

\* an inactive administrator has presented the right password and was refused
C1_Witness ==
    /\ req.route = "login_submit"
    /\ resp.error = "Identifiants invalides"
    /\ \E i \in DOMAIN admins :
          /\ admins[i].username = req.username
          /\ ~admins[i].is_active
          /\ \E salt \in Salts :
                admins[i].password_hash = hashpw(req.password, salt)

BadKinds == {"missing", "empty", "forged", "tampered", "expired"}

\* C2: a request to a guarded route whose cookie is missing, empty, badly
\* signed or expired gets the one denied answer (303 to /admin/login), its
\* handler body does not run and no row of any content table changes
C2_GuardDenies ==
    [][(ServesGuarded /\ req'.kind \in BadKinds) =>
        (resp' = LoginRedirect /\ ~resp'.ran /\ UNCHANGED tables)]_vars

\* an expired session has asked to delete a row that exists, and was denied
C2_Witness ==
    /\ req.route = "product_delete_action"
    /\ req.kind = "expired"
    /\ resp = LoginRedirect
    /\ ProductIdInputs \subseteq DOMAIN products

\* C3: a token with one character changed never verifies
C3_FlipFails ==
    req.kind = "flipped" => (~resp.admin.ok /\ resp = LoginRedirect)

\* C4: a correctly signed token older than max_age is refused: the guard
\* denies it, and verify_session_token returns None for the browser's token
\* at issuance + max_age + 1 and at every later instant
C4_ExpiredRejected ==
    /\ (req.route \in GuardedRoutes /\ req.kind = "expired")
          => (resp = LoginRedirect /\ ~resp.admin.ok)
    /\ jar.cookie.present =>
          \A t \in (jar.set_at + max_age + 1)..(MaxTime + 1) :
              verify_session_token(jar.cookie.value, t) = NoData

\* the token the browser got at login is presented one second after its
\* lifetime and is denied
C4_Witness ==
    /\ req.route \in GuardedRoutes
    /\ req.kind = "expired"
    /\ jar.cookie.present
    /\ req.subject = jar.subject
    /\ now = jar.set_at + max_age + 1
    /\ resp = LoginRedirect

\* C5: a guarded request carrying the token of a login, within max_age,
\* runs with the admin_id and username of the administrator who logged in
C5_LoginThenAuthorize ==
    [][(ServesGuarded /\ req'.kind = "valid") =>
        /\ resp'.ran
        /\ resp'.admin.ok
        /\ resp'.admin.admin_id = req'.subject.admin_id
        /\ resp'.admin.username = req'.subject.username
        /\ resp'.admin.admin_id \in DOMAIN admins
        /\ admins[resp'.admin.admin_id].username = resp'.admin.username]_vars

\* with two administrators in the store, the second one is recognised
C5_Witness ==
    /\ req.route \in GuardedRoutes
    /\ req.kind = "valid"
    /\ Count(admins) > 1
    /\ resp.admin.ok
    /\ resp.admin.admin_id # 1
    /\ resp.admin.username # INIT_ADMIN_USERNAME

\* C6: a failed login answers with no Set-Cookie and no cookie deletion, and
\* the browser's cookie is what it was
C6_FailedLoginNoCookie ==
    [][(Serves("login_submit")
        /\ ~CredentialsOk(admins, req'.username, req'.password)) =>
        /\ ~resp'.set_cookie.present
        /\ resp'.set_cookie = NoSetCookie
        /\ ~resp'.delete_cookie
        /\ jar' = jar]_vars

\* a login failed in a browser that holds a session cookie
C6_Witness ==
    /\ req.route = "login_submit"
    /\ ~CredentialsOk(admins, req.username, req.password)
    /\ resp = InvalidCredentials
    /\ jar.cookie.present

\* C7: once logout is answered the browser holds no session cookie, and the
\* guard denies what the browser sends from that instant on
C7_LogoutThenDenied ==
    req.route = "logout" =>
        /\ resp.delete_cookie
        /\ ~jar.cookie.present
        /\ BrowserPres.kind = "missing"
        /\ ~admin_required(BrowserPres.cookie, now).ok

\* a live session was logged out (its cookie had been copied before)
C7_Witness ==
    /\ req.route = "logout"
    /\ req.kind = "valid"
    /\ captured.cookie.present
    /\ captured.subject = req.subject
    /\ ~jar.cookie.present

\* C8: a copied token stays authorized, with the identity it was issued for,
\* at every instant up to issuance + max_age, whatever logins and logouts
\* happened since
C8_NoRevocation ==
    captured.cookie.present =>
        \A t \in TimePoints :
            (now <= t /\ t - captured.set_at <= max_age) =>
                /\ get_current_admin(Cookie(captured.cookie.value), t).ok
                /\ get_current_admin(Cookie(captured.cookie.value), t)
                     = captured.subject

\* after the logout, the copied token has been accepted by the guard, at
\* the last instant of its lifetime
C8_Witness ==
    /\ captured.cookie.present
    /\ ~jar.cookie.present
    /\ req.route \in GuardedRoutes
    /\ req.kind = "valid"
    /\ req.subject = captured.subject
    /\ now = captured.set_at + max_age
    /\ resp.ran
    /\ resp.admin = captured.subject

\* C9: the answer to a guarded request, authorized or not, sets no cookie
\* and deletes none: the cookies held are what they were, and so is the
\* instant at which the session ends
C9_NoRenewal ==
    [][ServesGuarded =>
        /\ ~resp'.set_cookie.present
        /\ ~resp'.delete_cookie
        /\ jar' = jar
        /\ captured' = captured]_vars

\* the browser's valid session made a request that changed a table
C9_Witness ==
    /\ req.route = "settings_update"
    /\ req.kind = "valid"
    /\ resp.ran
    /\ jar.cookie.present
    /\ req.subject = jar.subject
    /\ \E i \in DOMAIN settings : settings[i] # SettingsDefaults

\* C10: every login that fails, for an unknown username, an inactive
\* administrator or a wrong password, gets the same response
C10_FailuresAlike ==
    \A u \in LoginUsernames, p \in LoginPasswords :
        ~CredentialsOk(admins, u, p) =>
            login_submit_response(admins, u, p, now) = InvalidCredentials

\* the three causes exist together, and a login with an unknown username
\* has just failed
C10_Witness ==
    /\ req.route = "login_submit"
    /\ \A i \in DOMAIN admins : admins[i].username # req.username
    /\ resp = InvalidCredentials
    /\ \E i \in DOMAIN admins : ~admins[i].is_active
    /\ \E i \in DOMAIN admins : admins[i].is_active

\* what verify_session_token gives for the token of a presentation
Verified(c) == verify_session_token(c.cookie.value, now)
\* what serializer.loads raises or returns for it
Loaded(c) == loads(SECRET_KEY, c.cookie.value, max_age, now)

ExpiredHeld == {HeldPres(h) : h \in {k \in HeldCookies : KindOf(k) = "expired"}}
BadlySigned == {c \in Presentations \cup Stale :
                   c.kind \in {"forged", "tampered", "redated"}}

C12_SignatureBeforeAge ==
    /\ \A b \in BadlySigned : Loaded(b).kind = "BadSignature"
    /\ req.kind \in {"forged", "redated"} => resp = LoginRedirect

\* a token signed with another key, stamped more than max_age ago, was
\* presented and refused, and so was an expired token given a fresh stamp
C12_Witness ==
    /\ req.route = "dashboard"
    /\ req.kind = "forged"
    /\ Len(req.detail) = 1
    /\ now - req.detail[1] > max_age
    /\ resp = LoginRedirect
    /\ \E b \in BadlySigned, e \in ExpiredHeld :
          /\ b.kind = "redated"
          /\ b.subject = e.subject
          /\ b.detail = <<now>>

\* C13: an issued token is accepted at every age up to max_age, max_age
\* included, and refused at every greater age, each time it is verified
C13_InclusiveBoundary ==
    /\ \A h \in HeldCookies :
          Verified(HeldPres(h)).ok <=> (now - h.set_at <= max_age)
    /\ (req.route = "dashboard" /\ req.kind \in {"valid", "expired"})
          => (resp.admin.ok <=> req.kind = "valid")

\* a token was accepted at exactly issuance + max_age; one second later the
\* same token is not
C13_Witness ==
    /\ req.route = "dashboard"
    /\ req.kind = "valid"
    /\ resp.admin.ok
    /\ jar.cookie.present
    /\ req.subject = jar.subject
    /\ now = jar.set_at + max_age
    /\ ~verify_session_token(jar.cookie.value, now + 1).ok

\* the attributes set_session_cookie gives a cookie
WellFormedCookie(k) ==
    /\ k.key = SESSION_COOKIE_NAME
    /\ k.httponly
    /\ k.samesite = "lax"
    /\ k.max_age = ADMIN_SESSION_EXPIRE_MINUTES * 60

\* C14: every session cookie set is named kdp_admin_session, HttpOnly,
\* SameSite=lax, with Max-Age the session lifetime in seconds; at every
\* instant the cookie is within its Max-Age exactly when its token verifies
C14_CookieAndTokenInLockStep ==
    /\ resp.set_cookie.present => WellFormedCookie(resp.set_cookie)
    /\ \A h \in HeldCookies :
          /\ WellFormedCookie(h.cookie)
          /\ (now - h.set_at <= h.cookie.max_age)
                <=> verify_session_token(h.cookie.value, now).ok

\* a login has just set the cookie; another cookie, set earlier, is past its
\* Max-Age and its token past its validity
C14_Witness ==
    /\ req.route = "login_submit"
    /\ resp.set_cookie.present
    /\ jar.cookie = resp.set_cookie
    /\ captured.cookie.present
    /\ now - captured.set_at > captured.cookie.max_age
    /\ ~verify_session_token(captured.cookie.value, now).ok

\* C15: a login with valid credentials yields a token that verifies to the
\* administrator who logged in, and leaves the token of an earlier login of
\* another administrator as it was: same token, same verification result,
\* its own identity while it is within its lifetime
C15_LoginsIndependent ==
    [][(Serves("login_submit") /\ resp'.set_cookie.present) =>
        /\ get_current_admin(Cookie(jar'.cookie.value), now')
              = Data(first_admin(admins, req'.username), req'.username)
        /\ captured.cookie.present =>
              /\ captured' = captured
              /\ get_current_admin(Cookie(captured'.cookie.value), now')
                    = get_current_admin(Cookie(captured.cookie.value), now)
              /\ (now - captured.set_at <= max_age) =>
                    get_current_admin(Cookie(captured'.cookie.value), now')
                      = captured.subject]_vars

\* two administrators have logged in one after the other; both tokens are
\* live and each verifies to its own administrator
C15_Witness ==
    /\ req.route = "login_submit"
    /\ resp.set_cookie.present
    /\ captured.cookie.present
    /\ captured.subject.username # req.username
    /\ get_current_admin(Cookie(captured.cookie.value), now) = captured.subject
    /\ get_current_admin(Cookie(jar.cookie.value), now) = jar.subject
    /\ jar.subject.username = req.username

\* C16: a request that only passes the authorization check and reads
\* (the dashboard) leaves the credential store, the content tables, the
\* clock and the cookies held as they were, and the check's decision is
\* fixed by the cookie and the time: the token's own account if the token
\* is an issued one within its lifetime, nobody otherwise, whatever the
\* store holds and whatever requests came before
C16_CheckIsPure ==
    [][Serves("dashboard") =>
        /\ admins' = admins
        /\ UNCHANGED tables
        /\ now' = now
        /\ captured' = captured
        /\ resp'.admin = (IF req'.kind = "valid" THEN req'.subject ELSE NoData)
        /\ resp'.ran = (req'.kind = "valid")]_vars

\* the check has authorized a token whose account was deactivated since,
\* while another administrator's session is open in the browser
C16_Witness ==
    /\ req.route = "dashboard"
    /\ req.kind = "valid"
    /\ resp.admin = req.subject
    /\ req.subject.admin_id \in DOMAIN admins
    /\ ~admins[req.subject.admin_id].is_active
    /\ jar.cookie.present
    /\ jar.subject # req.subject

\* C17: a login against an administrator whose stored hash is malformed
\* ends as invalid credentials: verify_password returned False for it and
\* raised nothing
C17_MalformedHashIsRefused ==
    (/\ req.route = "login_submit"
     /\ \E i \in DOMAIN admins :
           /\ admins[i].username = req.username
           /\ admins[i].password_hash \in MalformedHashes)
       => resp = InvalidCredentials

\* C18: from the first startup on there is at least one administrator row,
\* and the default administrator seeded then is still the first row
C18_AlwaysAnAdmin ==
    /\ Count(admins) >= 1
    /\ first_admin(admins, INIT_ADMIN_USERNAME) = 1

\* the application has started again on a store in which every
\* administrator was switched off: the rows are all there
C18_Witness ==
    /\ req.route = "lifespan"
    /\ Count(admins) = MaxAdmins
    /\ \A i \in DOMAIN admins : ~admins[i].is_active

UniqueUsernames(store) ==
    \A i, j \in DOMAIN store :
        store[i].username = store[j].username => i = j

\* a step of a run of the create_admin script
ScriptStep == req'.route = "create_admin" /\ resp' # resp

\* C19: no two administrators have the same username, and a step of the
\* create_admin script for a username that exists reports an error (exit
\* status 1) and leaves the table as it was
C19_UniqueUsernames ==
    [][/\ UniqueUsernames(admins')
       /\ (ScriptStep /\ get_admin_by_username(admins, req'.username) # 0)
            => (resp'.status = 1 /\ admins' = admins)]_vars

\* two runs for the same new username overlapped: one made the row, the
\* other failed at its commit
C19_Witness ==
    /\ req.route = "create_admin"
    /\ resp = ScriptExit(1, "IntegrityError")
    /\ Cardinality({i \in DOMAIN admins : admins[i].username = req.username}) = 1
    /\ req.username # INIT_ADMIN_USERNAME

\* the active rows of a day and place, in the order get_schedules gives
RowsOfPair(table, day, place) ==
    SelectSeq(get_schedules(table, TRUE),
              LAMBDA r : r.day_of_week = day /\ r.place = place)

RECURSIVE JoinedRanges(_)
JoinedRanges(rows) ==
    IF rows = <<>> THEN <<>>
    ELSE <<Range(Head(rows).start_time, Head(rows).end_time)>>
         \o JoinedRanges(Tail(rows))

\* C20: GET /api/schedule returns at most one row for a day and place, and
\* its hours are the "start - end" of the active rows of that day and place,
\* in start_time order, joined by " / "
C20_OneRowPerDayAndPlace ==
    req.route = "api_get_schedule" =>
        LET body == schedule_body(schedules) IN
        /\ \A k, l \in DOMAIN body :
              (body[k].day_index = body[l].day_index
               /\ body[k].place = body[l].place) => k = l
        /\ \A k \in DOMAIN body :
              body[k].hours =
                JoinedRanges(RowsOfPair(schedules, body[k].day_index,
                                        body[k].place))

\* C21: logout is answered the same way whether or not the request carries a
\* session cookie: a redirect to the login page that deletes the cookie, never
\* an error; the browser holds no session afterwards, and a logout made with
\* no session leaves the browser exactly as it was
C21_LogoutIdempotent ==
    [][Serves("logout") =>
          /\ resp' = logout_response
          /\ resp'.status = 303
          /\ resp'.delete_cookie
          /\ jar' = NoHeld
          /\ (~jar.cookie.present => jar' = jar)]_vars

\* logout was requested with no session cookie, after an earlier logout had
\* ended the session whose copy is still around
C21_Witness ==
    /\ req.route = "logout"
    /\ req.kind = "missing"
    /\ resp = logout_response
    /\ jar = NoHeld
    /\ captured.cookie.present

\* the rows a public product list is to show: active, of the category asked
\* for, with the text searched in the name, best sellers where asked
Listed(row, category, search, best) ==
    /\ row.is_active
    /\ best => row.is_best_seller
    /\ Given(category) => row.category = category
    /\ Given(search) => ilike(row.name, search)

\* a list of formatted products shows exactly the ids of a set, each once, by
\* display_order and then by id
ShowsExactly(body, ids) ==
    /\ {body[k].id : k \in DOMAIN body} = ids
    /\ Len(body) = Cardinality(ids)
    /\ \A k \in DOMAIN body : body[k] = format_product_for_api(products, body[k].id)
    /\ \A k \in 1..(Len(body) - 1) :
          \/ products[body[k].id].display_order < products[body[k + 1].id].display_order
          \/ /\ products[body[k].id].display_order = products[body[k + 1].id].display_order
             /\ body[k].id < body[k + 1].id

\* the body of the response to the public request being answered
ResponseBody ==
    IF req.route = "api_get_products"
    THEN products_body(products, req.detail[1], req.detail[2])
    ELSE best_sellers_body(products)

\* C22: whatever the administrator did to the catalogue, the public product
\* list shows exactly the active products matching the filters of the request
\* and the best-seller list exactly the active best sellers, never an inactive
\* product, both by display_order and then id
C22_PublicProducts ==
    /\ req.route = "api_get_products" =>
          ShowsExactly(products_body(products, req.detail[1], req.detail[2]),
                       {i \in DOMAIN products :
                          Listed(products[i], req.detail[1], req.detail[2], FALSE)})
    /\ req.route = "api_get_best_sellers" =>
          ShowsExactly(best_sellers_body(products),
                       {i \in DOMAIN products :
                          Listed(products[i], NONE, NONE, TRUE)})
    /\ req.route \in {"api_get_products", "api_get_best_sellers"} =>
          \A k \in DOMAIN ResponseBody : products[ResponseBody[k].id].is_active

\* the list was asked for with a category and a search while the catalogue
\* held an inactive product of that category and an active one sorted before
\* the seeded ones
C22_Witness ==
    /\ req.route = "api_get_products"
    /\ req.detail = <<"gaufres", "gaufre">>
    /\ \E i, j \in DOMAIN products :
          /\ ~products[i].is_active /\ products[i].category = "gaufres"
          /\ products[j].is_active /\ products[j].category = "gaufres"
    /\ Len(products_body(products, "gaufres", "gaufre")) = 1
    /\ Len(products_body(products, NONE, NONE)) >= 2

\* C23: whatever startups and location and settings updates ran, and however
\* the statements of concurrent ones interleaved, the location table and the
\* settings table hold at most one row each
C23_Singletons ==
    /\ Count(location) <= 1
    /\ Count(settings) <= 1

\* C24: a restart fills the products, the schedule and the administrators
\* only where the table is empty, with the initial rows; a table that holds
\* rows is left exactly as it is, and so are the settings, the location and
\* the messages of a seeded database
C24_SeedOnlyWhenEmpty ==
    [][Serves("lifespan") =>
          /\ products' = IF Count(products) = 0
                         THEN InsertAll(EmptyTable, INITIAL_PRODUCTS)
                         ELSE products
          /\ schedules' = IF Count(schedules) = 0
                          THEN InsertAll(EmptyTable, INITIAL_SCHEDULE)
                          ELSE schedules
          /\ Count(admins) > 0 => admins' = admins
          /\ Count(settings) > 0 => settings' = settings
          /\ Count(location) > 0 => location' = location
          /\ messages' = messages]_vars

\* the application restarted on a database in which the administrator had
\* deleted a seeded product, edited another, and edited the schedule: the
\* restart brought nothing back
C24_Witness ==
    /\ req.route = "lifespan"
    /\ Count(products) = 1
    /\ \E i \in DOMAIN products : \E f \in ProductEditForms :
          products[i].name = f.name
    /\ \E i \in DOMAIN schedules : \E f \in ScheduleEditForms :
          schedules[i].place = f.place
    /\ Count(schedules) = Len(INITIAL_SCHEDULE)
    /\ settings[get_settings(settings)].slogan # SettingsDefaults.slogan

\* the account a cookie was issued for is no longer there, or is not active
AccountGone(subject) ==
    \/ subject.admin_id \notin DOMAIN admins
    \/ ~admins[subject.admin_id].is_active
    \/ admins[subject.admin_id].username # subject.username

\* C25: a cookie issued to an administrator who was deactivated or deleted
\* since is authorized by the guard, with the identity it was issued for, as
\* long as it has not expired, and the guarded handler runs for it
C25_GuardIgnoresStore ==
    /\ \A h \in HeldCookies :
          (AccountGone(h.subject) /\ KindOf(h) = "valid") =>
              /\ admin_required(Cookie(h.cookie.value), now).ok
              /\ admin_required(Cookie(h.cookie.value), now) = h.subject
    /\ (req.route = "dashboard" /\ req.kind = "valid" /\ AccountGone(req.subject)) =>
          /\ resp.ran
          /\ resp.status = 200
          /\ resp.admin = req.subject

\* the dashboard was served to the cookie of an administrator whose row is
\* deleted, while the other cookie held is that of a deactivated one
C25_Witness ==
    /\ req.route = "dashboard"
    /\ req.kind = "valid"
    /\ req.subject.admin_id \notin DOMAIN admins
    /\ resp.ran
    /\ resp.admin = req.subject
    /\ \E h \in HeldCookies :
          /\ h.subject # req.subject
          /\ KindOf(h) = "valid"
          /\ h.subject.admin_id \in DOMAIN admins
          /\ ~admins[h.subject.admin_id].is_active

\* C26: an entry the schedule forms have just created or edited, with a place
\* other than "Ouvert", has no start_time and no end_time stored
C26_ClosedPlaceHasNoTimes ==
    [][((Serves("schedule_create") \/ Serves("schedule_update_action"))
        /\ resp'.location = "/admin/schedule") =>
          \A i \in DOMAIN schedules' :
              (/\ i \notin DOMAIN schedules \/ schedules'[i] # schedules[i]
               /\ schedules'[i].place # "Ouvert") =>
                  /\ schedules'[i].start_time = NONE
                  /\ schedules'[i].end_time = NONE]_vars

\* a row with the keywords that are not None written over it; only the text
\* keywords named can be None
Patched(row, kw, optional) ==
    [f \in DOMAIN row |-> IF f \in optional /\ kw[f] = NONE THEN row[f] ELSE kw[f]]

\* what the form handlers hand to the update functions: None for an empty
\* optional text
ProductKw(form) ==
    [form EXCEPT !.image_filename = IF @ = "" THEN NONE ELSE @,
                 !.description = IF @ = "" THEN NONE ELSE @]
SettingsKw(form) == [f \in DOMAIN form |-> IF form[f] = "" THEN NONE ELSE form[f]]

\* C27: an edit of a product, a schedule entry or the settings writes, on the
\* one row it targets, the submitted values that are not None, and leaves the
\* other fields of that row and all other rows as they were; an empty image
\* or description of the product form keeps what was stored
C27_UpdatesOnlyGivenFields ==
    [][/\ (Serves("product_update") /\ resp'.location = "/admin/products") =>
            /\ \E i \in DOMAIN products :
                 \E f \in ProductEditForms \cup ProductForms :
                   products' = [products EXCEPT ![i] =
                      Patched(@, ProductKw(f), {"image_filename", "description"})]
            /\ \A i \in DOMAIN products :
                 \A f \in ProductEditForms \cup ProductForms :
                   (products'[i] # products[i] /\ products'[i].name = f.name) =>
                      /\ f.image_filename = "" =>
                            products'[i].image_filename = products[i].image_filename
                      /\ f.description = "" =>
                            products'[i].description = products[i].description
       /\ (Serves("schedule_update_action") /\ resp'.location = "/admin/schedule") =>
            \E i \in DOMAIN schedules :
              \E f \in ScheduleEditForms \cup ScheduleForms :
                schedules' = [schedules EXCEPT ![i] =
                   Patched(@, ScheduleKw(f), {"start_time", "end_time"})]
       /\ (Serves("settings_update") /\ resp'.status = 200) =>
            \E f \in SettingsForms :
              settings' = [settings EXCEPT ![get_settings(settings)] =
                 Patched(@, SettingsKw(f), SettingsFields)]]_vars

\* a seeded product was edited with a form whose image and description are
\* empty: the row has the form's name and still the seeded image
C27_Witness ==
    /\ req.route = "product_update"
    /\ resp.location = "/admin/products"
    /\ \E i \in DOMAIN products \cap DOMAIN INITIAL_PRODUCTS : \E f \in ProductForms :
          /\ products[i].name = f.name
          /\ f.image_filename = ""
          /\ products[i].image_filename = INITIAL_PRODUCTS[i].image_filename
          /\ products[i].description = INITIAL_PRODUCTS[i].description

\* the number of unread messages of a table
Unread(table) == Cardinality({i \in DOMAIN table : ~table[i].is_read})

\* C28: a message enters the table unread; a message that is read stays read
\* as long as it is in the table; a view that shows a message leaves it
\* read; the number of unread messages grows only at a contact submission
\* and shrinks only at a view or a delete
C28_ReadIsMonotone ==
    [][/\ \A i \in DOMAIN messages' :
             i \notin DOMAIN messages => ~messages'[i].is_read
       /\ \A i \in DOMAIN messages \cap DOMAIN messages' :
             messages[i].is_read => messages'[i].is_read
       /\ (Serves("message_view") /\ resp'.page = "admin/message_view.html") =>
             \E i \in DOMAIN messages :
                 messages' = [messages EXCEPT ![i].is_read = TRUE]
       /\ Unread(messages') > Unread(messages) => Serves("api_submit_contact")
       /\ Unread(messages') < Unread(messages) =>
             Serves("message_view") \/ Serves("message_delete_action")]_vars

\* a message submitted through the contact form has been shown to the
\* administrator and is read
C28_Witness ==
    /\ req.route = "message_view"
    /\ resp.page = "admin/message_view.html"
    /\ \E i \in DOMAIN messages : messages[i].is_read
    /\ Unread(messages) = 0

====
